---- MODULE Spec2Model ----
\* Model of the NVP two-player digit-guessing bot (src/bot.py): the module
\* body, whose line 15 raises re.error when the file is run or imported
\* (SpecLoad), and the code below that line as it is written: the in-memory
\* GAMES store and the command handlers newgame, join, secret, guess, status
\* and cancel, each handler being one atomic action.
EXTENDS Integers, Sequences, FiniteSets, TLC

\* ------------------------------------------------------------------ bounds
MaxChats == 1
MaxUsers == 3
\* number of handler calls in one run
MaxUpdates == 7

Chats == 1..MaxChats
Users == 1..MaxUsers
ChatTypes == {"private", "group"}
\* update.effective_chat as (type, id): a group chat, or a private chat, whose
\* id no handler reads
ChatInputs == {<<"group", k>> : k \in Chats} \cup {<<"private", 0>>}

\* ------------------------------------------------------- strings and codes
\* A string is a sequence of one-character strings.  "U+0663" stands for the
\* single character ARABIC-INDIC DIGIT THREE, for which str.isdigit() is true.
AsciiDigits == {"0", "1", "2", "3", "4", "5", "6", "7", "8", "9"}
OtherDigits == {"U+0663"}
Whitespace == {" "}

\* None and the value stored for a player who has not committed a secret
None == <<>>

Range(s) == {s[i] : i \in 1..Len(s)}

\* str.isdigit(): non-empty and every character is a digit character
isdigit(s) == Len(s) > 0 /\ \A i \in 1..Len(s) : s[i] \in AsciiDigits \cup OtherDigits

RECURSIVE lstrip(_)
lstrip(s) == IF Len(s) > 0 /\ Head(s) \in Whitespace THEN lstrip(Tail(s)) ELSE s

RECURSIVE rstrip(_)
rstrip(s) == IF Len(s) > 0 /\ s[Len(s)] \in Whitespace
             THEN rstrip(SubSeq(s, 1, Len(s) - 1)) ELSE s

\* str.strip()
strip(s) == rstrip(lstrip(s))

valid_secret(num) ==
    IF ~isdigit(num) \/ Len(num) # 4 THEN FALSE
    ELSE IF "0" \in Range(num) THEN FALSE
    ELSE IF Cardinality(Range(num)) # 4 THEN FALSE
    ELSE TRUE

\* returns <<values, positions>>; range(4) indexes both strings at 0..3
compare_guess_range3(secret_, guess_) ==
    << Cardinality({i \in 1..Len(guess_) : guess_[i] \in Range(secret_)}),
       Cardinality({i \in 1..3 : guess_[i] = secret_[i]}) >>

compare_guess(secret_, guess_) ==
    << Cardinality({i \in 1..Len(guess_) : guess_[i] \in Range(secret_)}),
       Cardinality({i \in 1..4 : guess_[i] = secret_[i]}) >>

\* ------------------------------------------------------------------ inputs
C1234 == <<"1", "2", "3", "4">>
C5678 == <<"5", "6", "7", "8">>
C1123 == <<"1", "1", "2", "3">>

\* the argument strings the transport hands over in context.args
Codes == {C1234, C5678, C1123}
ArgLists == {<<>>} \cup {<<c>> : c \in Codes}

\* The updates the handlers are run on: every sender and every argument list
\* in every chat of the type the command is meant for.  In a chat of the other
\* type a handler returns at its first test, before it reads the sender or
\* the arguments, so one update stands for all of them there.
JoinInputs == {<<"group", k, u>> : k \in Chats, u \in Users} \cup {<<"private", 0, 1>>}
SecretInputs ==
    {<<"private", u, args>> : u \in Users, args \in ArgLists} \cup {<<"group", 1, <<C1234>>>>}
GuessInputs ==
    {<<"group", k, u, args>> : k \in Chats, u \in Users, args \in ArgLists}
        \cup {<<"private", 0, 1, <<C1234>>>>}

\* user.first_name (two users may share a first name)
first_name(u) == IF u % 2 = 1 THEN "Ann" ELSE "Bob"

\* ------------------------------------------------------------------- state
\* GAMES: the module's dict; reply: what the last handler answered; updates:
\* the number of handler calls made; call: the module body, or a call of one
\* of the two module functions valid_secret and compare_guess, with its
\* arguments and result
VARIABLES GAMES, reply, updates, call
vars == <<GAMES, reply, updates, call>>

\* no function call recorded
NoCall == [fn |-> "none", args |-> <<>>, done |-> FALSE, ret |-> <<>>]

\* dict helpers: GAMES is a dict in insertion order, a sequence of (gid, g)
InGAMES(k) == \E i \in 1..Len(GAMES) : GAMES[i].gid = k
IndexOf(k) == CHOOSE i \in 1..Len(GAMES) : GAMES[i].gid = k
GameOf(k) == GAMES[IndexOf(k)].g

\* GAMES[k] = g : an existing key keeps its position, a new key goes last
DictSet(k, g) ==
    IF InGAMES(k) THEN [GAMES EXCEPT ![IndexOf(k)] = [gid |-> k, g |-> g]]
    ELSE Append(GAMES, [gid |-> k, g |-> g])

\* GAMES.pop(k, None)
DictPop(k) == SelectSeq(GAMES, LAMBDA e : e.gid # k)

\* d[u] = v on an inner dict (player_names, secrets)
MapSet(d, u, v) == [x \in (DOMAIN d) \cup {u} |-> IF x = u THEN v ELSE d[x]]

\* d.get(u)
MapGet(d, u) == IF u \in DOMAIN d THEN d[u] ELSE None

\* the dict literal of newgame
NewGameDict ==
    [players |-> <<>>, player_names |-> <<>>, secrets |-> <<>>,
     turn_index |-> 0, finished |-> FALSE]

\* all(game['secrets'].get(pid) for pid in game['players'])
AllSecretsSet(g) == \A i \in 1..Len(g.players) : MapGet(g.secrets, g.players[i]) # None

\* what the handler answered.  kind: the outcome ("WrongChat": the command was
\* sent in the wrong type of chat, "Usage": not exactly one argument); gid: the
\* chat whose game the handler changed (0: none); user: the user the answer
\* names (0: none); values, positions: the score of an evaluated guess
Reply(kind) == [kind |-> kind, gid |-> 0, user |-> 0, values |-> 0, positions |-> 0]
ChatReply(kind, k, u) == [kind |-> kind, gid |-> k, user |-> u, values |-> 0, positions |-> 0]
GuessReply(kind, k, u, vp) ==
    [kind |-> kind, gid |-> k, user |-> u, values |-> vp[1], positions |-> vp[2]]

\* the store as line 13 leaves it, before any handler has been called
Init ==
    /\ GAMES = <<>>
    /\ reply = Reply("None")
    /\ updates = 0
    /\ call = NoCall

\* -------------------------------------------------------------- module body
\* Running or importing bot.py executes the module body top to bottom: line 13
\* binds GAMES, line 15 compiles SECRET_RE, the def statements bind the
\* functions, and the last two lines call main().  The pattern of line 15
\* refers to groups 1..4 and has no capturing group, so re.compile raises
\* re.error there: the process ends with GAMES bound and nothing else, no
\* function is defined and main() is never called.  SpecLoad is the program
\* as it is shipped.  Spec, SpecRouting, SpecSessions and SpecCalls describe
\* the functions of lines 18-198 as written, applied to the store of line 13;
\* they say what the code does once line 15 no longer stops the module
\* (SECRET_RE is used nowhere else in the file).  bot.py starts no thread and
\* main() registers every handler as a plain CommandHandler (lines 212-219),
\* so one handler call returns before the next begins: each call is one step.

\* the raw string of line 15, one character per element
SECRET_RE_pattern ==
    <<"^", "[", "1", "-", "9", "]", "(", "?", "!", ".", "*", "\\", "1", ")",
           "[", "1", "-", "9", "]", "(", "?", "!", ".", "*", "\\", "2", ")",
           "[", "1", "-", "9", "]", "(", "?", "!", ".", "*", "\\", "3", ")",
           "[", "1", "-", "9", "]", "(", "?", "!", ".", "*", "\\", "4", ")", "$">>

\* int(c) for a decimal digit character
DigitValue(c) == CHOOSE n \in 0..9 : <<"0", "1", "2", "3", "4", "5", "6", "7", "8", "9">>[n + 1] = c

\* the outcome of a compilation: ok, or re.error "invalid group reference
\* <group> at position <pos>"
Compiled == [ok |-> TRUE, group |-> 0, pos |-> 0]
InvalidGroupReference(group, pos) == [ok |-> FALSE, group |-> group, pos |-> pos]

\* the index after the "]" that closes the character class opened before i
RECURSIVE ClassEnd(_, _)
ClassEnd(p, i) ==
    IF i > Len(p) THEN i
    ELSE IF p[i] = "]" THEN i + 1
    ELSE ClassEnd(p, i + 1)

\* The parser's left-to-right scan of pattern p from index i, groups being the
\* number of capturing groups opened so far: "(" not followed by "?" opens a
\* capturing group, "(?" opens an extension that captures nothing (here the
\* lookahead "(?!"), a character class is skipped, and a backslash followed by
\* a digit 1-9 is a reference to the group of that number, an error unless
\* that group exists.  (A reference to a group that is still open is an error
\* too; with no capturing group in the pattern that case does not arise.)
RECURSIVE sre_parse(_, _, _)
sre_parse(p, i, groups) ==
    IF i > Len(p) THEN Compiled
    ELSE IF p[i] = "\\" /\ i < Len(p) /\ p[i + 1] \in AsciiDigits \ {"0"} THEN
        IF DigitValue(p[i + 1]) <= groups THEN sre_parse(p, i + 2, groups)
        ELSE InvalidGroupReference(DigitValue(p[i + 1]), i)
    ELSE IF p[i] = "\\" THEN sre_parse(p, i + 2, groups)
    ELSE IF p[i] = "[" THEN sre_parse(p, ClassEnd(p, i + 1), groups)
    ELSE IF p[i] = "(" /\ i < Len(p) /\ p[i + 1] = "?" THEN sre_parse(p, i + 2, groups)
    ELSE IF p[i] = "(" THEN sre_parse(p, i + 1, groups + 1)
    ELSE sre_parse(p, i + 1, groups)

\* re.compile(pattern)
re_compile(p) == sre_parse(p, 1, 0)

\* the interpreter at line 15, GAMES bound by line 13
InitLoad ==
    /\ GAMES = <<>>
    /\ reply = Reply("None")
    /\ updates = 0
    /\ call = [fn |-> "module", args |-> <<SECRET_RE_pattern>>, done |-> FALSE, ret |-> <<>>]

\* line 15: the compilation returns, or raises and ends the module body
ModuleBody ==
    /\ call.fn = "module" /\ ~call.done
    /\ call' = [call EXCEPT !.done = TRUE, !.ret = re_compile(call.args[1])]
    /\ UNCHANGED <<GAMES, reply, updates>>

\* lines 224-225 and main(): reached only by a module body that did not raise
Main ==
    /\ call.fn = "module" /\ call.done /\ call.ret.ok
    /\ call' = [fn |-> "main", args |-> <<>>, done |-> FALSE, ret |-> <<>>]
    /\ UNCHANGED <<GAMES, reply, updates>>

NextLoad == ModuleBody \/ Main

SpecLoad == InitLoad /\ [][NextLoad]_vars

\* the module body has raised at line 15
LoadFaulted == call.fn = "module" /\ call.done /\ ~call.ret.ok
\* main() is never entered, so no handler is ever registered or called
MainNeverRuns == call.fn # "main"
\* the fault is the one Python reports: group 1, position 12
LoadFaultIsGroup1 == LoadFaulted => call.ret = InvalidGroupReference(1, 12)
\* once the body has been executed, it has faulted
LoadAlwaysFaults == (call.fn = "module" /\ call.done) => LoadFaulted

\* ---------------------------------------------------------------- handlers
\* chat_id in GAMES and not GAMES[chat_id].get('finished', True)
GameActive_stored(k) == InGAMES(k)
GameActive(k) == InGAMES(k) /\ ~GameOf(k).finished

\* chat_id not in GAMES or GAMES[chat_id].get('finished', True)
NoActiveGame_absent(k) == ~InGAMES(k)
NoActiveGame(k) == ~InGAMES(k) \/ GameOf(k).finished

\* len(game['players']) >= 2
IsFull_three(g) == Len(g.players) >= 3
IsFull(g) == Len(g.players) >= 2

\* user.id != current_player_id, negated
IsTurnOf_anyone(g, u) == TRUE
IsTurnOf(g, u) == u = g.players[g.turn_index + 1]

\* [pid for pid in game['players'] if pid != user.id]
opponents_self(g, u) == SelectSeq(g.players, LAMBDA pid : pid = u)
opponents(g, u) == SelectSeq(g.players, LAMBDA pid : pid # u)

\* 1 - game['turn_index']
NextTurn_stay(t) == t
NextTurn(t) == 1 - t

\* Each handler is modelled in two parts: the branch it takes for an update
\* (h_kind, the kind of its answer) and what that branch does to GAMES and
\* the answer (h).

newgame_kind(ct, k) ==
    IF ct = "private" THEN "WrongChat"
    ELSE IF GameActive(k) THEN "SessionAlreadyActive"
    ELSE "Created"

newgame(ct, k) ==
    LET kind == newgame_kind(ct, k)
    IN  IF kind = "Created" THEN
            /\ GAMES' = DictSet(k, NewGameDict)
            /\ reply' = ChatReply(kind, k, 0)
        ELSE
            /\ reply' = Reply(kind)
            /\ UNCHANGED GAMES

JoinedGame(g, u) ==
    [g EXCEPT !.players = Append(g.players, u),
              !.player_names = MapSet(g.player_names, u, first_name(u)),
              !.secrets = MapSet(g.secrets, u, None)]

join_kind(ct, k, u) ==
    IF ct = "private" THEN "WrongChat"
    ELSE IF NoActiveGame(k) THEN "JoinNoActiveGame"
    ELSE IF u \in Range(GameOf(k).players) THEN "AlreadyJoined"
    ELSE IF IsFull(GameOf(k)) THEN "SessionFull"
    ELSE IF Len(GameOf(k).players) + 1 = 2 THEN "JoinedTwoPlayers"
    ELSE "Joined"

join(ct, k, u) ==
    LET kind == join_kind(ct, k, u)
    IN  IF kind \in {"Joined", "JoinedTwoPlayers"} THEN
            /\ GAMES' = DictSet(k, JoinedGame(GameOf(k), u))
            /\ reply' = ChatReply(kind, k, 0)
        ELSE
            /\ reply' = Reply(kind)
            /\ UNCHANGED GAMES

\* the games a secret of user u can go to, in dict iteration order
NeedsSecret_overwrite(e, u) ==
    /\ u \in Range(e.g.players)
    /\ ~e.g.finished

NeedsSecret(e, u) ==
    /\ u \in Range(e.g.players)
    /\ ~e.g.finished
    /\ MapGet(e.g.secrets, u) = None

games_for_user(u) == SelectSeq(GAMES, LAMBDA e : NeedsSecret(e, u))

SecretGame_all(g, u, num) ==
    [g EXCEPT !.secrets = [x \in (DOMAIN g.secrets) \cup {u} |-> num]]
SecretGame(g, u, num) == [g EXCEPT !.secrets = MapSet(g.secrets, u, num)]

\* "SecretFault": the secret is stored and answered, then lines 115-116 index
\* the second player of a game that has one
secret_kind(ct, u, args) ==
    IF ct # "private" THEN "WrongChat"
    ELSE IF Len(args) # 1 THEN "Usage"
    ELSE IF ~valid_secret(strip(args[1])) THEN "InvalidSecret"
    ELSE IF games_for_user(u) = <<>> THEN "NoGameFound"
    ELSE LET e == games_for_user(u)[1]
             game == SecretGame(e.g, u, strip(args[1]))
         IN  IF ~AllSecretsSet(game) THEN "SecretSaved"
             ELSE IF Len(game.players) < 2 THEN "SecretFault"
             ELSE "BothSecretsSet"

secret(ct, u, args) ==
    LET kind == secret_kind(ct, u, args)
    IN  IF kind \in {"SecretSaved", "SecretFault", "BothSecretsSet"} THEN
            LET e == games_for_user(u)[1]
            IN  /\ GAMES' = DictSet(e.gid, SecretGame(e.g, u, strip(args[1])))
                /\ reply' = ChatReply(kind, e.gid, 0)
        ELSE
            /\ reply' = Reply(kind)
            /\ UNCHANGED GAMES

\* game['finished'] = True; return (lines 162-163)
WonGame_advance(game) ==
    [game EXCEPT !.finished = TRUE, !.turn_index = NextTurn(game.turn_index)]
WonGame(game) == [game EXCEPT !.finished = TRUE]

\* "GuessFault": an IndexError at line 146 or 152, before any answer
guess_kind(ct, k, u, args) ==
    IF ct = "private" THEN "WrongChat"
    ELSE IF NoActiveGame(k) THEN "GuessNoActiveGame"
    ELSE LET game == GameOf(k)
         IN  IF u \notin Range(game.players) THEN "UnknownPlayer"
             ELSE IF Len(args) # 1 THEN "Usage"
             ELSE IF ~valid_secret(strip(args[1])) THEN "InvalidGuess"
             ELSE IF ~AllSecretsSet(game) THEN "NotInProgress"
             ELSE IF game.turn_index + 1 > Len(game.players) THEN "GuessFault"
             ELSE IF ~IsTurnOf(game, u) THEN "NotYourTurn"
             ELSE IF opponents(game, u) = <<>> THEN "GuessFault"
             ELSE IF compare_guess(game.secrets[opponents(game, u)[1]],
                                   strip(args[1]))[2] = 4 THEN "Win"
             ELSE "Continue"

guess(ct, k, u, args) ==
    LET kind == guess_kind(ct, k, u, args)
    IN  IF kind \in {"Win", "Continue"} THEN
            LET game == GameOf(k)
                opponent_secret == game.secrets[opponents(game, u)[1]]
                vp == compare_guess(opponent_secret, strip(args[1]))
            IN  /\ GAMES' = DictSet(k, IF kind = "Win"
                                       THEN WonGame(game)
                                       ELSE [game EXCEPT !.turn_index = NextTurn(game.turn_index)])
                /\ reply' = GuessReply(kind, k, u, vp)
        ELSE
            /\ reply' = Reply(kind)
            /\ UNCHANGED GAMES

status_kind(ct, k) ==
    IF ct = "private" THEN "WrongChat"
    ELSE IF ~InGAMES(k) THEN "StatusNoGame"
    ELSE IF GameOf(k).finished THEN "StatusFinished"
    ELSE "Status"

status(ct, k) ==
    /\ reply' = Reply(status_kind(ct, k))
    /\ UNCHANGED GAMES

cancel_kind_activeonly(ct, k) ==
    IF ct = "private" THEN "WrongChat"
    ELSE IF NoActiveGame(k) THEN "CancelNotFound"
    ELSE "Cancelled"

cancel_kind(ct, k) ==
    IF ct = "private" THEN "WrongChat"
    ELSE IF ~InGAMES(k) THEN "CancelNotFound"
    ELSE "Cancelled"

cancel(ct, k) ==
    LET kind == cancel_kind(ct, k)
    IN  IF kind = "Cancelled" THEN
            /\ GAMES' = DictPop(k)
            /\ reply' = ChatReply(kind, k, 0)
        ELSE
            /\ reply' = Reply(kind)
            /\ UNCHANGED GAMES

\* ------------------------------------------------------------ specification
\* Spec: the handlers of lines 40-198 called one after another, in any order
\* and with any input, on the store of line 13.  It is the behaviour of the
\* handler functions as written; the shipped module stops at line 15 before
\* they are defined (SpecLoad).
\* one more handler call
Dispatch == updates < MaxUpdates /\ updates' = updates + 1 /\ UNCHANGED call

DoNewgame == Dispatch /\ \E ch \in ChatInputs : newgame(ch[1], ch[2])
DoJoin == Dispatch /\ \E i \in JoinInputs : join(i[1], i[2], i[3])
DoSecret == Dispatch /\ \E i \in SecretInputs : secret(i[1], i[2], i[3])
DoGuess == Dispatch /\ \E i \in GuessInputs : guess(i[1], i[2], i[3], i[4])
DoStatus == Dispatch /\ \E ch \in ChatInputs : status(ch[1], ch[2])
DoCancel == Dispatch /\ \E ch \in ChatInputs : cancel(ch[1], ch[2])

Next == DoNewgame \/ DoJoin \/ DoSecret \/ DoGuess \/ DoStatus \/ DoCancel

Spec == Init /\ [][Next]_vars

\* ------------------------------------------------------------------ phases
\* the phase of a stored game, derived from its fields
Phase(g) ==
    IF g.finished THEN "FINISHED"
    ELSE IF Len(g.players) < 2 THEN "FORMING"
    ELSE IF ~AllSecretsSet(g) THEN "AWAITING_SECRETS"
    ELSE "IN_PROGRESS"

InPhase(k, ph) == InGAMES(k) /\ Phase(GameOf(k)) = ph
IsPlayer(k, u) == InGAMES(k) /\ u \in Range(GameOf(k).players)
ValidCodes == {c \in Codes : valid_secret(c)}
\* the player whose seat is turn_index
CurrentPlayer(k) == GameOf(k).players[GameOf(k).turn_index + 1]

OpponentSecret(k, u) ==
    LET g == GameOf(k)
    IN  IF g.players[1] = u THEN g.secrets[g.players[2]] ELSE g.secrets[g.players[1]]

IsPrefix(a, b) == Len(a) <= Len(b) /\ SubSeq(b, 1, Len(a)) = a

\* ------------------------------------------------------------------ claims
\* C1: in an IN_PROGRESS game a guess with a valid code by the participant
\* whose seat is not turn_index is answered NotYourTurn, also when the code
\* equals the opponent's secret, and a NotYourTurn answer changes nothing in
\* GAMES.
C1_Answer ==
    \A k \in Chats :
        InPhase(k, "IN_PROGRESS") =>
            \A u \in Range(GameOf(k).players) \ {CurrentPlayer(k)}, c \in ValidCodes :
                guess_kind("group", k, u, <<c>>) = "NotYourTurn"

C1_Step == reply'.kind = "NotYourTurn" => GAMES' = GAMES

C1_NotYourTurn == []C1_Answer /\ [][C1_Step]_vars

\* a guess was answered NotYourTurn in a state with an IN_PROGRESS game
C1_Witness ==
    /\ reply.kind = "NotYourTurn"
    /\ \E k \in Chats : InPhase(k, "IN_PROGRESS")

\* C2: turn_index is 0 until both secrets are committed; it changes only by an
\* accepted non-winning guess of the player seated at turn_index, which sets
\* it to 1 - turn_index, so accepted guesses alternate starting with seat 0;
\* join, secret and rejected guesses leave it alone.
C2_TurnZeroBeforeStart ==
    \A k \in Chats :
        (InPhase(k, "FORMING") \/ InPhase(k, "AWAITING_SECRETS")) => GameOf(k).turn_index = 0

C2_TurnStep ==
    /\ GAMES' # GAMES =>
          \A k \in Chats :
              ( /\ InGAMES(k) /\ InGAMES(k)'
                /\ GameOf(k)'.turn_index # GameOf(k).turn_index
                /\ ~(reply'.kind = "Created" /\ reply'.gid = k) )
              => ( /\ reply'.kind = "Continue" /\ reply'.gid = k
                   /\ InPhase(k, "IN_PROGRESS")
                   /\ reply'.user = CurrentPlayer(k)
                   /\ GameOf(k)'.turn_index = 1 - GameOf(k).turn_index )
    /\ reply'.kind \in {"Continue", "Win"} =>
          \A k \in Chats \cap {reply'.gid} :
              /\ InPhase(k, "IN_PROGRESS")
              /\ reply'.user = CurrentPlayer(k)
              /\ reply'.kind = "Continue"
                    => GameOf(k)'.turn_index = 1 - GameOf(k).turn_index

C2_Alternation == []C2_TurnZeroBeforeStart /\ [][C2_TurnStep]_vars

\* seat 1 has just had a guess accepted, after seat 0 had
C2_Witness ==
    /\ reply.kind = "Continue"
    /\ InPhase(reply.gid, "IN_PROGRESS")
    /\ reply.user = GameOf(reply.gid).players[2]
    /\ GameOf(reply.gid).turn_index = 0

\* C3: a game becomes finished only by a guess of the player at turn_index
\* whose code equals the opponent's secret, that guess is answered as a win of
\* the guesser, and a valid guess that differs from the opponent's secret
\* (the guesser's own secret included) does not finish the game.
C3_Answer ==
    \A k \in Chats :
        InPhase(k, "IN_PROGRESS") =>
            \A c \in ValidCodes :
                guess_kind("group", k, CurrentPlayer(k), <<c>>)
                    = IF c = OpponentSecret(k, CurrentPlayer(k)) THEN "Win" ELSE "Continue"

C3_FinishStep ==
    /\ GAMES' # GAMES =>
          \A k \in Chats :
              (InGAMES(k)' /\ GameOf(k)'.finished /\ ~(InGAMES(k) /\ GameOf(k).finished))
              => ( /\ InPhase(k, "IN_PROGRESS")
                   /\ reply'.kind = "Win" /\ reply'.gid = k
                   /\ reply'.user = CurrentPlayer(k)
                   /\ guess("group", k, reply'.user, <<OpponentSecret(k, reply'.user)>>) )
    /\ reply'.kind = "Win" =>
          \A k \in Chats \cap {reply'.gid} :
              /\ GameOf(k)'.finished
              /\ reply'.positions = 4
              /\ reply'.user = CurrentPlayer(k)
    /\ reply'.kind = "Continue" =>
          \A k \in Chats \cap {reply'.gid} :
              /\ ~GameOf(k)'.finished
              /\ reply'.positions # 4

C3_WinOnlyByOpponentSecret == []C3_Answer /\ [][C3_FinishStep]_vars

\* a game won by a guess, its two secrets being different
C3_Witness ==
    /\ reply.kind = "Win"
    /\ InPhase(reply.gid, "FINISHED")
    /\ GameOf(reply.gid).secrets[GameOf(reply.gid).players[1]]
          # GameOf(reply.gid).secrets[GameOf(reply.gid).players[2]]

\* C4: on a finished game every join and every guess is answered "no active
\* game", no secret submission is routed to it, and these answers leave GAMES
\* as it was; the stored finished game changes only by cancel or by newgame.
C4_Answer ==
    \A k \in Chats :
        InPhase(k, "FINISHED") =>
            /\ \A u \in Users : join_kind("group", k, u) = "JoinNoActiveGame"
            /\ \A u \in Users, args \in ArgLists :
                  guess_kind("group", k, u, args) = "GuessNoActiveGame"
            /\ \A u \in Users, c \in ValidCodes :
                  secret_kind("private", u, <<c>>) # "NoGameFound"
                  => games_for_user(u)[1].gid # k

C4_FinishedStep ==
    /\ reply'.kind \in {"JoinNoActiveGame", "GuessNoActiveGame", "NoGameFound"}
          => GAMES' = GAMES
    /\ GAMES' # GAMES =>
          \A k \in Chats :
              InPhase(k, "FINISHED") =>
                  \/ InGAMES(k)' /\ GameOf(k)' = GameOf(k)
                  \/ reply'.kind = "Cancelled" /\ reply'.gid = k /\ ~InGAMES(k)'
                  \/ reply'.kind = "Created" /\ reply'.gid = k

C4_FinishedIsTerminal == []C4_Answer /\ [][C4_FinishedStep]_vars

\* a guess has been turned away while the only chat holds a finished game
C4_Witness ==
    /\ reply.kind = "GuessNoActiveGame"
    /\ \A k \in Chats : InPhase(k, "FINISHED")

\* C5: no handler ends in an unhandled fault (an IndexError raised inside the
\* handler), whatever the state and the input.
C5_NoFault == reply.kind \notin {"SecretFault", "GuessFault"}

\* C6: a guess on a stored game that is FORMING or AWAITING_SECRETS is answered
\* NotInProgress for every caller and every code, before any UnknownPlayer,
\* InvalidSecret or NotYourTurn answer.
C6_NotInProgressFirst ==
    \A k \in Chats :
        (InPhase(k, "FORMING") \/ InPhase(k, "AWAITING_SECRETS")) =>
            \A u \in Users, c \in Codes :
                guess_kind("group", k, u, <<c>>) = "NotInProgress"

\* C7: no stored game with fewer than two players holds a committed secret
\* (a secret is recorded only in AWAITING_SECRETS), and no such game counts as
\* having all its secrets committed once somebody joined.
C7_NoSecretWhileForming ==
    \A k \in Chats :
        (InGAMES(k) /\ Len(GameOf(k).players) < 2)
        => \A u \in Range(GameOf(k).players) : GameOf(k).secrets[u] = None

\* C8: a committed secret keeps its value for as long as the game is stored:
\* no step changes it while its owner stays in the game under that chat, and a
\* further submission by its owner is never routed to a game where the owner
\* already holds a secret.
C8_Answer ==
    \A u \in Users, c \in ValidCodes :
        secret_kind("private", u, <<c>>) # "NoGameFound"
        => MapGet(games_for_user(u)[1].g.secrets, u) = None

C8_Step ==
    GAMES' # GAMES =>
        \A k \in Chats :
            (InGAMES(k) /\ InGAMES(k)')
            => \A u \in Range(GameOf(k).players) :
                  (GameOf(k).secrets[u] # None /\ u \in Range(GameOf(k)'.players))
                  => GameOf(k)'.secrets[u] = GameOf(k).secrets[u]

C8_SecretImmutable == []C8_Answer /\ [][C8_Step]_vars

\* a valid secret found no game to go to while both players of the stored
\* game hold a committed secret
C8_Witness ==
    /\ reply.kind = "NoGameFound"
    /\ \E k \in Chats : InPhase(k, "IN_PROGRESS")

\* C9: newgame in a chat with an active game is answered SessionAlreadyActive
\* and leaves GAMES as it was; with no game or a finished game stored for the
\* chat it stores a game without players and secrets, turn_index 0, not
\* finished, and leaves the games of the other chats alone.
C9_Answer ==
    \A k \in Chats :
        newgame_kind("group", k)
            = IF InGAMES(k) /\ ~GameOf(k).finished THEN "SessionAlreadyActive" ELSE "Created"

C9_Step ==
    /\ reply'.kind = "SessionAlreadyActive" => GAMES' = GAMES
    /\ reply'.kind = "Created" =>
          \A k \in Chats \cap {reply'.gid} :
              /\ ~(InGAMES(k) /\ ~GameOf(k).finished)
              /\ InGAMES(k)'
              /\ GameOf(k)'.players = <<>>
              /\ DOMAIN GameOf(k)'.secrets = {}
              /\ DOMAIN GameOf(k)'.player_names = {}
              /\ GameOf(k)'.turn_index = 0
              /\ ~GameOf(k)'.finished
              /\ \A j \in Chats \ {k} :
                    /\ InGAMES(j)' = InGAMES(j)
                    /\ InGAMES(j) => GameOf(j)' = GameOf(j)

C9_CreateOnlyWhenInactive == []C9_Answer /\ [][C9_Step]_vars

\* the seventh update created a game in the only chat that has one: the game
\* stored there before was finished (six updates play a game to its win) or
\* cancelled
C9_Witness ==
    /\ reply.kind = "Created"
    /\ updates >= 7
    /\ Len(GAMES) = 1
    /\ GameOf(reply.gid).players = <<>>

\* C10: a stored game has at most two players, all different; its player list
\* changes only by a join appending the joining user; a join by a player of
\* the active game is answered AlreadyJoined, a join by somebody else when two
\* players are there SessionFull, and both answers change nothing.
C10_Players ==
    \A k \in Chats :
        InGAMES(k) =>
            /\ Len(GameOf(k).players) <= 2
            /\ \A i, j \in 1..Len(GameOf(k).players) :
                  i # j => GameOf(k).players[i] # GameOf(k).players[j]

C10_Answer ==
    \A k \in Chats :
        (InGAMES(k) /\ ~GameOf(k).finished) =>
            \A u \in Users :
                /\ IsPlayer(k, u) => join_kind("group", k, u) = "AlreadyJoined"
                /\ (~IsPlayer(k, u) /\ Len(GameOf(k).players) = 2)
                      => join_kind("group", k, u) = "SessionFull"

C10_Step ==
    /\ reply'.kind \in {"AlreadyJoined", "SessionFull"} => GAMES' = GAMES
    /\ GAMES' # GAMES =>
          \A k \in Chats :
              (InGAMES(k) /\ InGAMES(k)' /\ ~(reply'.kind = "Created" /\ reply'.gid = k))
              => /\ IsPrefix(GameOf(k).players, GameOf(k)'.players)
                 /\ GameOf(k)'.players # GameOf(k).players
                       => ( /\ reply'.kind \in {"Joined", "JoinedTwoPlayers"}
                            /\ reply'.gid = k
                            /\ \E u \in Users \ Range(GameOf(k).players) :
                                  GameOf(k)'.players = Append(GameOf(k).players, u) )

C10_TwoDistinctSeats == [](C10_Players /\ C10_Answer) /\ [][C10_Step]_vars

\* somebody was turned away from a game with two players
C10_Witness ==
    /\ reply.kind = "SessionFull"
    /\ \E k \in Chats : InGAMES(k) /\ Len(GameOf(k).players) = 2

\* C11: the phase of a stored game only moves forward, one phase at a time
\* (FORMING, AWAITING_SECRETS, IN_PROGRESS, FINISHED), for as long as the game
\* is stored: no step takes it to an earlier phase and none skips a phase.
PhaseRank(ph) ==
    CASE ph = "FORMING" -> 0
      [] ph = "AWAITING_SECRETS" -> 1
      [] ph = "IN_PROGRESS" -> 2
      [] ph = "FINISHED" -> 3

C11_Step ==
    GAMES' # GAMES =>
        \A k \in Chats :
            (InGAMES(k) /\ InGAMES(k)' /\ ~(reply'.kind = "Created" /\ reply'.gid = k))
            => /\ PhaseRank(Phase(GameOf(k)')) >= PhaseRank(Phase(GameOf(k)))
               /\ PhaseRank(Phase(GameOf(k)')) <= PhaseRank(Phase(GameOf(k))) + 1

C11_PhaseForward == [][C11_Step]_vars

\* a game with two players and both secrets has been won: it went through
\* all four phases
C11_Witness ==
    /\ reply.kind = "Win"
    /\ \E k \in Chats :
          /\ InPhase(k, "FINISHED")
          /\ Len(GameOf(k).players) = 2
          /\ AllSecretsSet(GameOf(k))

\* C12: an accepted guess changes one thing in its game and nothing else in
\* GAMES: a win sets finished and keeps turn_index, any other accepted guess
\* sets turn_index to 1 - turn_index and leaves the game unfinished; players,
\* player names and secrets stay as they were.
C12_Step ==
    reply'.kind \in {"Win", "Continue"} =>
        \A k \in Chats \cap {reply'.gid} :
            /\ InGAMES(k) /\ InGAMES(k)'
            /\ ~GameOf(k).finished
            /\ GameOf(k)'.players = GameOf(k).players
            /\ GameOf(k)'.player_names = GameOf(k).player_names
            /\ GameOf(k)'.secrets = GameOf(k).secrets
            /\ IF reply'.kind = "Win"
               THEN /\ GameOf(k)'.finished
                    /\ GameOf(k)'.turn_index = GameOf(k).turn_index
               ELSE /\ ~GameOf(k)'.finished
                    /\ GameOf(k)'.turn_index = 1 - GameOf(k).turn_index
            /\ \A j \in Chats \ {k} :
                  /\ InGAMES(j)' = InGAMES(j)
                  /\ InGAMES(j) => GameOf(j)' = GameOf(j)

C12_OneMutation == [][C12_Step]_vars

\* seat 1 has won: its winning guess left turn_index at 1
C12_Witness ==
    /\ reply.kind = "Win"
    /\ InGAMES(reply.gid)
    /\ GameOf(reply.gid).finished
    /\ GameOf(reply.gid).turn_index = 1

\* C15: cancel in a group chat removes the game stored for the chat whatever
\* its phase, so that the chat has no active game afterwards, and leaves the
\* other chats' games alone; with no game stored it answers not-found and
\* changes nothing.
C15_Answer ==
    \A k \in Chats :
        cancel_kind("group", k) = IF InGAMES(k) THEN "Cancelled" ELSE "CancelNotFound"

C15_Step ==
    /\ reply'.kind = "CancelNotFound" => GAMES' = GAMES
    /\ reply'.kind = "Cancelled" =>
          \A k \in Chats \cap {reply'.gid} :
              /\ InGAMES(k)
              /\ ~InGAMES(k)'
              /\ NoActiveGame(k)'
              /\ \A j \in Chats \ {k} :
                    /\ InGAMES(j)' = InGAMES(j)
                    /\ InGAMES(j) => GameOf(j)' = GameOf(j)

C15_CancelRemoves == []C15_Answer /\ [][C15_Step]_vars

\* a game was cancelled by the seventh update or later: six updates are enough
\* to have played it to any phase
C15_Witness ==
    /\ reply.kind = "Cancelled"
    /\ ~InGAMES(reply.gid)
    /\ updates >= 7

\* ------------------------------------------- specification: several chats
\* The handlers run one update at a time as in Spec, on a bot that sits in
\* several group chats, with users who may join in more than one of them and
\* with a code written with a digit that is not an ASCII digit.
MaxRoutingChats == 2
MaxRoutingUsers == 2
MaxRoutingUpdates == 6
RoutingChats == 1..MaxRoutingChats
RoutingUsers == 1..MaxRoutingUsers
\* "12\u0663" followed by "4": four distinct characters, all of them digits to
\* str.isdigit, none of them '0'
C12x4 == <<"1", "2", "U+0663", "4">>
RoutingCodes == {C1234, C12x4}

RoutingDispatch ==
    updates < MaxRoutingUpdates /\ updates' = updates + 1 /\ UNCHANGED call

RtNewgame == RoutingDispatch /\ \E k \in RoutingChats : newgame("group", k)
RtJoin == RoutingDispatch /\ \E k \in RoutingChats, u \in RoutingUsers : join("group", k, u)
RtSecret ==
    RoutingDispatch /\ \E u \in RoutingUsers, c \in RoutingCodes : secret("private", u, <<c>>)
RtGuess ==
    RoutingDispatch
        /\ \E k \in RoutingChats, u \in RoutingUsers, c \in RoutingCodes : guess("group", k, u, <<c>>)
RtStatus == RoutingDispatch /\ \E k \in RoutingChats : status("group", k)
RtCancel == RoutingDispatch /\ \E k \in RoutingChats : cancel("group", k)

NextRouting == RtNewgame \/ RtJoin \/ RtSecret \/ RtGuess \/ RtStatus \/ RtCancel

SpecRouting == Init /\ [][NextRouting]_vars

\* the answers of secret() after which the secret is stored
SecretStored == {"SecretSaved", "SecretFault", "BothSecretsSet"}
\* the submitter of the secret stored in chat k by this step
Submitted(k, u) ==
    /\ u \in Range(GameOf(k).players)
    /\ MapGet(GameOf(k).secrets, u) = None
    /\ MapGet(GameOf(k)'.secrets, u) # None

\* C19: a stored secret goes to the most recently created of the games that
\* lack a secret of its submitter.  GAMES keeps its keys in insertion order,
\* so of two stored games the one created later sits later (no stored game
\* has been replaced in place here: that takes a finished game).
C19_Step ==
    reply'.kind \in SecretStored =>
        \A k \in RoutingChats \cap {reply'.gid}, u \in RoutingUsers :
            Submitted(k, u) =>
                \A i \in 1..Len(GAMES) : NeedsSecret(GAMES[i], u) => i <= IndexOf(k)

C19_MostRecentGame == [][C19_Step]_vars

\* C20: in every stored game the users with a secret entry are the joined
\* players, and every secret entry is unset or four pairwise distinct
\* characters out of '1'..'9'.
IsSecret19(sec) ==
    /\ Len(sec) = 4
    /\ Range(sec) \subseteq AsciiDigits \ {"0"}
    /\ Cardinality(Range(sec)) = 4

C20_SecretEntries ==
    \A k \in RoutingChats :
        InGAMES(k) =>
            /\ DOMAIN GameOf(k).secrets = Range(GameOf(k).players)
            /\ \A u \in Range(GameOf(k).players) :
                  GameOf(k).secrets[u] = None \/ IsSecret19(GameOf(k).secrets[u])

\* ------------------------------------- specification: the module functions
\* One call of valid_secret or of compare_guess: Init draws the arguments, the
\* action runs the function on them and records what it returns.
MaxStrLen == 5
MaxDigit == 8
\* the characters of the strings handed to valid_secret: '0', digits, a
\* letter and a digit that is not an ASCII digit
ValidatorChars == {"0", "1", "2", "3", "4", "a", "U+0663"}

\* the digits '1'..'9' in order
DigitChar == <<"1", "2", "3", "4", "5", "6", "7", "8", "9">>
\* codes of four different digits out of the first MaxDigit: the secrets with
\* their digits in ascending order, the guesses in any order (a secret and a
\* guess score the same when both are rearranged alike)
AscendingCodes ==
    {[i \in 1..4 |-> DigitChar[f[i]]] :
        f \in {h \in [1..4 -> 1..MaxDigit] : \A i \in 1..3 : h[i] < h[i + 1]}}
DigitCodes ==
    {[i \in 1..4 |-> DigitChar[f[i]]] :
        f \in {h \in [1..4 -> 1..MaxDigit] : \A i, j \in 1..4 : i # j => h[i] # h[j]}}

Call(fn, args) == [fn |-> fn, args |-> args, done |-> FALSE, ret |-> <<>>]

InitCalls ==
    /\ GAMES = <<>>
    /\ reply = Reply("None")
    /\ updates = 0
    /\ \/ \E n \in 0..MaxStrLen :
              \E num \in [1..n -> ValidatorChars] : call = Call("valid_secret", <<num>>)
       \/ \E sec \in AscendingCodes, gue \in DigitCodes :
              call = Call("compare_guess", <<sec, gue>>)

CallValidSecret ==
    /\ call.fn = "valid_secret" /\ ~call.done
    /\ call' = [call EXCEPT !.done = TRUE, !.ret = valid_secret(call.args[1])]
    /\ UNCHANGED <<GAMES, reply, updates>>

CallCompareGuess ==
    /\ call.fn = "compare_guess" /\ ~call.done
    /\ call' = [call EXCEPT !.done = TRUE, !.ret = compare_guess(call.args[1], call.args[2])]
    /\ UNCHANGED <<GAMES, reply, updates>>

NextCalls == CallValidSecret \/ CallCompareGuess

SpecCalls == InitCalls /\ [][NextCalls]_vars

\* C17: valid_secret(s) is true exactly of the strings of four pairwise
\* distinct characters out of '1'..'9'; any other string, one with a digit
\* that is not an ASCII digit included, is rejected.
C17_ValidIffFourDigits19 ==
    (call.fn = "valid_secret" /\ call.done) => (call.ret = IsSecret19(call.args[1]))

\* C18: for a valid secret and a valid guess compare_guess returns the number
\* of digits they have in common and the number of positions where they
\* agree; so positions <= values <= 4, no common digit gives (0, 0), the
\* secret itself gives (4, 4), and positions is 4 only for the secret itself.
C18_Score ==
    (call.fn = "compare_guess" /\ call.done) =>
        LET sec == call.args[1]
            gue == call.args[2]
            values == call.ret[1]
            positions == call.ret[2]
        IN  /\ values = Cardinality(Range(sec) \cap Range(gue))
            /\ positions = Cardinality({i \in 1..4 : gue[i] = sec[i]})
            /\ positions <= values /\ values <= 4
            /\ Range(sec) \cap Range(gue) = {} => call.ret = <<0, 0>>
            /\ gue = sec => call.ret = <<4, 4>>
            /\ positions = 4 <=> gue = sec

\* a guess that shares no digit with the secret has been scored
C18_Witness ==
    /\ call.fn = "compare_guess" /\ call.done
    /\ Range(call.args[1]) \cap Range(call.args[2]) = {}
    /\ call.ret = <<0, 0>>

\* ------------------------------------- specification: several sessions
\* The handlers called one after another as in Spec, for several chats, from
\* stores that hold games of two chats side by side.  Every store is one the
\* handlers produce from the empty store; the calls that produce it are named
\* with it.
MaxSessionCalls == 3
SessionCodes == {C1234, C5678}

\* two players joined, no secret yet
AwaitingGame == JoinedGame(JoinedGame(NewGameDict, 1), 2)
\* both secrets stored: in progress, turn_index 0
StartedGame == SecretGame(SecretGame(AwaitingGame, 1, C1234), 2, C5678)

SessionStores ==
    { \* no call yet
      <<>>,
      \* newgame, join by 1, join by 2 in chat 1, then the same in chat 2
      <<[gid |-> 1, g |-> AwaitingGame], [gid |-> 2, g |-> AwaitingGame]>>,
      \* newgame, two joins in chat 2, secret by 1, secret by 2, then newgame
      \* and join by 1 in chat 1
      <<[gid |-> 2, g |-> StartedGame], [gid |-> 1, g |-> JoinedGame(NewGameDict, 1)]>>,
      \* chat 1 as before and guess 1234 by 1, then newgame, two joins in chat 2
      <<[gid |-> 1, g |-> [StartedGame EXCEPT !.turn_index = NextTurn(0)]],
        [gid |-> 2, g |-> AwaitingGame]>>,
      \* chat 1 as before and guess 5678 by 1, then newgame, two joins and
      \* both secrets in chat 2
      <<[gid |-> 1, g |-> WonGame(StartedGame)], [gid |-> 2, g |-> StartedGame]>> }

InitSessions ==
    /\ GAMES \in SessionStores
    /\ reply = Reply("None")
    /\ updates = 0
    /\ call = NoCall

\* one more handler call
SessionDispatch ==
    updates < MaxSessionCalls /\ updates' = updates + 1 /\ UNCHANGED call

SsNewgame == SessionDispatch /\ \E k \in RoutingChats : newgame("group", k)
SsJoin == SessionDispatch /\ \E k \in RoutingChats, u \in RoutingUsers : join("group", k, u)
SsSecret ==
    SessionDispatch /\ \E u \in RoutingUsers, c \in SessionCodes : secret("private", u, <<c>>)
SsGuess ==
    SessionDispatch
        /\ \E k \in RoutingChats, u \in RoutingUsers, c \in SessionCodes : guess("group", k, u, <<c>>)
SsStatus == SessionDispatch /\ \E k \in RoutingChats : status("group", k)
SsCancel == SessionDispatch /\ \E k \in RoutingChats : cancel("group", k)

NextSessions == SsNewgame \/ SsJoin \/ SsSecret \/ SsGuess \/ SsStatus \/ SsCancel

SpecSessions == InitSessions /\ [][NextSessions]_vars

\* every chat other than k holds after the step what it held before, at the
\* place in GAMES where it was
OthersUnchanged(k) ==
    \A j \in RoutingChats \ {k} :
        /\ InGAMES(j)' = InGAMES(j)
        /\ InGAMES(j) => GameOf(j)' = GameOf(j)

\* C16: whichever of newgame, join, guess and cancel a step runs for chat k,
\* the step changes nothing in GAMES but the entry of k: the game of every
\* other chat stays as it was.
C16_KeyedStep ==
    \A k \in RoutingChats :
        (GAMES' # GAMES /\ SessionDispatch
            /\ \/ newgame("group", k)
               \/ cancel("group", k)
               \/ \E u \in RoutingUsers : join("group", k, u)
               \/ \E u \in RoutingUsers, c \in SessionCodes : guess("group", k, u, <<c>>))
        => OthersUnchanged(k)

\* C16: a submission of code c by user u that changes GAMES changes one stored
\* game, one in which u is a player without a secret: in that game the secret
\* entry of u becomes c while every other field and every other player's
\* entry stay, and every other chat's game stays as it was, also when u lacks
\* a secret in several games.
C16_SecretStep ==
    \A u \in RoutingUsers, c \in SessionCodes :
        (GAMES' # GAMES /\ SessionDispatch /\ secret("private", u, <<c>>)) =>
            \E k \in RoutingChats :
                /\ InGAMES(k) /\ InGAMES(k)'
                /\ OthersUnchanged(k)
                /\ u \in Range(GameOf(k).players)
                /\ GameOf(k).secrets[u] = None
                /\ GameOf(k)' = [GameOf(k) EXCEPT !.secrets[u] = c]

C16_OneSession == [][C16_KeyedStep /\ C16_SecretStep]_vars

\* a guess has been accepted in one chat's game while a chat later in GAMES
\* holds a game of which the guesser is a player too, without a secret there
C16_Witness ==
    /\ reply.kind \in {"Continue", "Win"}
    /\ \E j \in RoutingChats \ {reply.gid} :
          /\ InGAMES(j) /\ InGAMES(reply.gid)
          /\ IndexOf(reply.gid) < IndexOf(j)
          /\ NeedsSecret(GAMES[IndexOf(j)], reply.user)

====
